---- MODULE Spec2Model ----
(***************************************************************************)
(* PreciseAudio (precise-audio): the play / pause / seek / rate state      *)
(* machine, its asynchronous loads, the sources' `ended` callbacks and the *)
(* requestAnimationFrame scheduler.                                        *)
(*                                                                         *)
(* Composer (file-manipulation): moving the selected events of a cue file  *)
(* to a new start time.                                                    *)
(*                                                                         *)
(* Numbers are JavaScript numbers modelled as exact rationals together     *)
(* with the three non-finite values NaN, +Infinity and -Infinity; binary   *)
(* rounding of finite values is not modelled.                              *)
(***************************************************************************)
EXTENDS Integers, Sequences, FiniteSets, TLC

\* ------------------------------------------------------------------ bounds
MaxNow == 5000
MaxTracks == 2
MaxSources == 2
MaxFrames == 2
\* layers of a cue file, and events of a layer
MaxLayers == 2
MaxEvents == 2

\* duration of every decoded buffer, in milliseconds
DurationMillis == 5000

\* --------------------------------------------------------------- numbers
Abs(i) == IF i < 0 THEN -i ELSE i

RECURSIVE GCD(_, _)
GCD(a, b) == IF b = 0 THEN a ELSE GCD(b, a % b)

\* the rational n/d (d > 0) in lowest terms
Fin(n, d) ==
  LET g == GCD(Abs(n), d)
  IN  [k |-> "fin", n |-> n \div g, d |-> d \div g]

NaN == [k |-> "nan", n |-> 0, d |-> 1]
PInf == [k |-> "pinf", n |-> 0, d |-> 1]
NInf == [k |-> "ninf", n |-> 0, d |-> 1]
Zero == Fin(0, 1)
One == Fin(1, 1)
Int2Num(i) == Fin(i, 1)

IsFinite(x) == x.k = "fin"

Sign(x) ==
  CASE x.k = "pinf" -> 1
    [] x.k = "ninf" -> -1
    [] x.k = "fin" -> (IF x.n > 0 THEN 1 ELSE IF x.n < 0 THEN -1 ELSE 0)
    [] OTHER -> 0

SignedInf(s) == IF s > 0 THEN PInf ELSE NInf

Neg(x) ==
  CASE x.k = "fin" -> Fin(-x.n, x.d)
    [] x.k = "pinf" -> NInf
    [] x.k = "ninf" -> PInf
    [] OTHER -> NaN

\* a + b
Add(a, b) ==
  IF a.k = "nan" \/ b.k = "nan" THEN NaN
  ELSE IF a.k = "fin" /\ b.k = "fin" THEN Fin(a.n * b.d + b.n * a.d, a.d * b.d)
  ELSE IF a.k = "fin" THEN b
  ELSE IF b.k = "fin" THEN a
  ELSE IF a.k = b.k THEN a
  ELSE NaN

\* a - b
Sub(a, b) == Add(a, Neg(b))

\* a * b
Mul(a, b) ==
  IF a.k = "nan" \/ b.k = "nan" THEN NaN
  ELSE IF a.k = "fin" /\ b.k = "fin" THEN Fin(a.n * b.n, a.d * b.d)
  ELSE IF Sign(a) = 0 \/ Sign(b) = 0 THEN NaN
  ELSE SignedInf(Sign(a) * Sign(b))

\* a / b (a zero divisor is +0)
Div(a, b) ==
  IF a.k = "nan" \/ b.k = "nan" THEN NaN
  ELSE IF a.k = "fin" /\ b.k = "fin" THEN
    IF b.n = 0
      THEN (IF a.n = 0 THEN NaN ELSE SignedInf(Sign(a)))
      ELSE Fin(a.n * b.d * Sign(b), a.d * Abs(b.n))
  ELSE IF a.k = "fin" THEN Zero
  ELSE IF b.k # "fin" THEN NaN
  ELSE IF b.n = 0 THEN a
  ELSE SignedInf(Sign(a) * Sign(b))

\* a >= b (false when either side is NaN)
Geq(a, b) ==
  IF a.k = "nan" \/ b.k = "nan" THEN FALSE
  ELSE IF a.k = "fin" /\ b.k = "fin" THEN a.n * b.d >= b.n * a.d
  ELSE IF a.k = b.k THEN TRUE
  ELSE a.k = "pinf" \/ b.k = "ninf"

\* Math.min(a, b) and Math.max(a, b): NaN when either argument is NaN
MathMin(a, b) ==
  IF a.k = "nan" \/ b.k = "nan" THEN NaN ELSE IF Geq(a, b) THEN b ELSE a

MathMax(a, b) ==
  IF a.k = "nan" \/ b.k = "nan" THEN NaN ELSE IF Geq(a, b) THEN a ELSE b

\* a < b and a > b (false when either side is NaN)
Lt(a, b) == a.k # "nan" /\ b.k # "nan" /\ ~Geq(a, b)

Gt(a, b) == Lt(b, a)

\* a !== b on numbers (NaN differs from every number, itself included)
StrictNotEqual(a, b) == a.k = "nan" \/ b.k = "nan" \/ a # b

\* ---------------------------------------------------------------- inputs
\* values assigned to playbackRate
Rates == {Zero, One, Fin(2, 1)}
\* values assigned to currentTime, in seconds
SeekSeconds == {One, Fin(6, 1)}
\* a value assigned to currentTime that lies before the start of the track
NegativeSeekSeconds == {Fin(-1, 1)}
\* amounts by which the AudioContext clock advances, in milliseconds
ClockSteps == {2500}

\* values assigned to volume
Volumes ==
  {Fin(-1, 2), Zero, Fin(1, 4), Fin(1, 2), Fin(3, 4), One, Fin(3, 2), NaN}

\* timestamps of the events of a cue file, and start times asked for, in
\* milliseconds
Timestamps == {Zero, Fin(100, 1), Fin(2001, 20)}
NewStartTimes == {Fin(-50, 1), Fin(100, 1), Fin(2001, 20), Fin(200, 1)}

TrackIds == 1..MaxTracks
SourceIds == 1..MaxSources
FrameIds == 1..MaxFrames

\* ----------------------------------------------------------------- state
VARIABLES
  ctxState,                      \* AudioContext.state
  now,                           \* AudioContext.currentTime * 1000
  track,                         \* identity of this.track, 0 for null
  nextTrack,                     \* identity of the next Track object
  loads,                         \* per Track object: progress of its load
  data,                          \* this.track.data
  suppressEndedEvent,            \* per Playing state object: its flag
  sources,                       \* per AudioBufferSourceNode: backend state
  nextSource,                    \* identity of the next source node
  _playbackRate,
  _adjustPitchWithPlaybackRate,
  _animationFrameRequest,        \* last handle requested, 0 for null
  frames,                        \* animation frame callbacks still pending
  _volume,                       \* this._volume: volume and muted
  gain,                          \* gainNode.gain.value
  cueFile,                       \* the CueFile passed to the composer
  selection,                     \* the Selection passed with it
  newStartTime,                  \* the start time passed with them
  returned,                      \* whether the call returned, and what
  fired,                         \* events dispatched by the last step
  threw,                         \* the last step threw to its caller
  lastOp                         \* the last step taken

vars == <<ctxState, now, track, nextTrack, loads, data, suppressEndedEvent,
          sources, nextSource, _playbackRate, _adjustPitchWithPlaybackRate,
          _animationFrameRequest, frames, _volume, gain, cueFile, selection,
          newStartTime, returned, fired, threw, lastOp>>

\* the composer's data, which the player does not touch
cueVars == <<cueFile, selection, newStartTime, returned>>

\* the fields the volume and muted setters do not touch
playbackVars ==
  <<ctxState, now, track, nextTrack, loads, data, suppressEndedEvent,
    sources, nextSource, _playbackRate, _adjustPitchWithPlaybackRate,
    _animationFrameRequest, frames>>

\* PlayState: a Playing state object is identified by its source node
Paused(positionMillis) ==
  [state |-> "paused", positionMillis |-> positionMillis,
   source |-> 0, effectiveStartTimeMillis |-> Zero]

Playing(source, effectiveStartTimeMillis) ==
  [state |-> "playing", positionMillis |-> Zero,
   source |-> source, effectiveStartTimeMillis |-> effectiveStartTimeMillis]

\* Track.data: absent, or the decoded buffer (named by the Track whose load
\* decoded it) and the PlayState
NoData == [present |-> FALSE, buffer |-> 0, state |-> Paused(Zero)]
TrackData(buffer, state) ==
  [present |-> TRUE, buffer |-> buffer, state |-> state]

\* an AudioBufferSourceNode: how it was configured and started, whether it
\* is playing ("live"), was stopped or finished by itself, what stop() saw,
\* and how many `ended` events of the engine its listener has fired
NoSource ==
  [status |-> "none", rate |-> Zero, pitchShift |-> FALSE, offset |-> Zero,
   startedAt |-> 0, stop |-> "no", ended |-> 0]

\* the mutable fields of the engine and of the backend, as one value that
\* the handlers transform
Engine ==
  [ctxState |-> ctxState, track |-> track, nextTrack |-> nextTrack,
   loads |-> loads, data |-> data, suppressEndedEvent |-> suppressEndedEvent,
   sources |-> sources, nextSource |-> nextSource,
   _playbackRate |-> _playbackRate,
   _adjustPitchWithPlaybackRate |-> _adjustPitchWithPlaybackRate,
   _animationFrameRequest |-> _animationFrameRequest, frames |-> frames,
   fired |-> <<>>, threw |-> FALSE, blocked |-> FALSE]

\* The step `op` leaves the engine as `result`. A step that would need more
\* Track objects or source nodes than MaxTracks, MaxSources is not taken.
Commit(result, op) ==
  \E e \in {result} :
  /\ ~e.blocked
  /\ ctxState' = e.ctxState
  /\ track' = e.track
  /\ nextTrack' = e.nextTrack
  /\ loads' = e.loads
  /\ data' = e.data
  /\ suppressEndedEvent' = e.suppressEndedEvent
  /\ sources' = e.sources
  /\ nextSource' = e.nextSource
  /\ _playbackRate' = e._playbackRate
  /\ _adjustPitchWithPlaybackRate' = e._adjustPitchWithPlaybackRate
  /\ _animationFrameRequest' = e._animationFrameRequest
  /\ frames' = e.frames
  /\ UNCHANGED <<_volume, gain>>
  /\ UNCHANGED cueVars
  /\ fired' = e.fired
  /\ threw' = e.threw
  /\ lastOp' = op

\* a CueFileEvent, a CueFileLayer (of kind percussion, with its
\* defaultLengthMillis) and a CueFile
CueFileEvent(timestampMillis) ==
  [timestampMillis |-> timestampMillis, states |-> <<>>]

CueFileLayer(events) ==
  [kind |-> "percussion", settings |-> 200, events |-> events]

CueFile(layers) == [lengthMillis |-> 1000, layers |-> layers]

\* a PreciseAudio as constructed
PlayerInit ==
  /\ ctxState \in {"suspended", "running"}
  /\ now = 0
  /\ track = 0
  /\ nextTrack = 1
  /\ loads = [t \in TrackIds |-> "none"]
  /\ data = NoData
  /\ suppressEndedEvent = [s \in SourceIds |-> FALSE]
  /\ sources = [s \in SourceIds |-> NoSource]
  /\ nextSource = 1
  /\ _playbackRate = One
  /\ _adjustPitchWithPlaybackRate = TRUE
  /\ _animationFrameRequest = 0
  /\ frames = {}
  /\ _volume = [volume |-> One, muted |-> FALSE]
  /\ gain = One
  /\ fired = <<>>
  /\ threw = FALSE
  /\ lastOp = "new"

Init ==
  /\ PlayerInit
  /\ cueFile = CueFile(<<>>)
  /\ selection = {}
  /\ newStartTime = Zero
  /\ returned = [called |-> FALSE, file |-> CueFile(<<>>)]

\* ------------------------------------------------------------ handlers
\* sendEvent / dispatchError: the event reaches the listeners
SendEvent(e, eventType) == [e EXCEPT !.fired = Append(@, eventType)]

IsPlaying(e) == e.track # 0 /\ e.data.present /\ e.data.state.state = "playing"

\* AudioScheduledSourceNode.stop(): a playing node stops; the call is
\* recorded together with the flag its state object carried at that moment
SourceStop(e, s) ==
  [e EXCEPT !.sources[s] =
     [@ EXCEPT !.status = IF @ = "live" THEN "stopped" ELSE @,
               !.rate = Zero, !.pitchShift = FALSE,
               !.offset = Zero, !.startedAt = 0,
               !.stop = IF e.suppressEndedEvent[s]
                          THEN "suppressed" ELSE "unsuppressed"]]

\* fault variant: the source is stopped without marking its state
stopWithoutEnding_NoSuppress(e, s) == SourceStop(e, s)

stopWithoutEnding(e, s) ==
  SourceStop([e EXCEPT !.suppressEndedEvent[s] = TRUE], s)

\* requestAnimationFrame hands out handles; a handle is opaque, so the
\* smallest one that is not pending stands for a fresh one
FreshFrame(pending) ==
  IF \E i \in FrameIds : i \notin pending
    THEN CHOOSE i \in FrameIds :
           i \notin pending /\ \A j \in FrameIds : j < i => j \in pending
    ELSE MaxFrames + 1

\* fault variant: a frame is requested without cancelling the previous one
scheduleTimeUpdated_NoCancel(e) ==
  LET id == FreshFrame(e.frames)
  IN  [e EXCEPT !._animationFrameRequest = id, !.frames = e.frames \cup {id}]

scheduleTimeUpdated(e) ==
  LET pending == IF e._animationFrameRequest # 0
                   THEN e.frames \ {e._animationFrameRequest}
                   ELSE e.frames
      id == FreshFrame(pending)
  IN  [e EXCEPT !._animationFrameRequest = id, !.frames = pending \cup {id}]

\* the body of the requestAnimationFrame callback
timeUpdated(e) ==
  LET e1 == SendEvent(e, "timeupdate")
  IN  IF IsPlaying(e1) THEN scheduleTimeUpdated(e1) ELSE e1

\* fault variant: the listener accepts any Playing state, not only its own
createTrackEndedListener_ByType(e, s) ==
  IF ~IsPlaying(e) THEN e
  ELSE IF ~e.suppressEndedEvent[e.data.state.source]
    THEN [SendEvent(e, "ended") EXCEPT
            !.data.state = Paused(Zero),
            !.sources[s].ended = @ + 1]
    ELSE e

\* fault variant: the listener fires `ended` but leaves the state Playing
createTrackEndedListener_NoReset(e, s) ==
  IF ~(IsPlaying(e) /\ e.data.state.source = s) THEN e
  ELSE IF ~e.suppressEndedEvent[s]
    THEN [SendEvent(e, "ended") EXCEPT !.sources[s].ended = @ + 1]
    ELSE e

\* the listener registered on the source of Playing state s
createTrackEndedListener(e, s) ==
  IF ~(IsPlaying(e) /\ e.data.state.source = s) THEN e
  ELSE IF ~e.suppressEndedEvent[s]
    THEN [SendEvent(e, "ended") EXCEPT
            !.data.state = Paused(Zero),
            !.sources[s].ended = @ + 1]
    ELSE e

\* source.start(0, offset) rejects a non-finite or negative offset
StartRejects(positionMillis) ==
  ~IsFinite(positionMillis) \/ Sign(positionMillis) < 0

playFrom(e, positionMillis) ==
  IF ~(e.track # 0 /\ e.data.present) THEN e
  ELSE IF StartRejects(positionMillis) THEN [e EXCEPT !.threw = TRUE]
  ELSE IF e.nextSource > MaxSources THEN [e EXCEPT !.blocked = TRUE]
  ELSE
    LET s == e.nextSource
        source == [NoSource EXCEPT
                     !.status = "live",
                     !.rate = e._playbackRate,
                     !.pitchShift = (e._playbackRate # One
                                     /\ e._adjustPitchWithPlaybackRate),
                     !.offset = positionMillis,
                     !.startedAt = now]
        anchor == Sub(Int2Num(now), Div(positionMillis, e._playbackRate))
    IN  scheduleTimeUpdated(
          [e EXCEPT !.nextSource = s + 1,
                    !.sources[s] = source,
                    !.suppressEndedEvent[s] = FALSE,
                    !.data.state = Playing(s, anchor)])

\* context.resume() when suspended (taken to succeed at once)
Resume(e) == [e EXCEPT !.ctxState = "running"]

\* (nowMillis - effectiveStartTimeMillis) * playbackRate
ToPosition(nowMillis, effectiveStartTimeMillis, playbackRate) ==
  Mul(Sub(Int2Num(nowMillis), effectiveStartTimeMillis), playbackRate)

currentTimeMillisOf(e) ==
  IF e.track # 0 /\ e.data.present
    THEN IF e.data.state.state = "paused"
           THEN e.data.state.positionMillis
           ELSE ToPosition(now, e.data.state.effectiveStartTimeMillis,
                           e._playbackRate)
    ELSE Zero

\* fault variant: play() starts a source also when one is already playing
play_Restart(e) ==
  LET e1 == Resume(e)
  IN  IF e1.track # 0 /\ e1.data.present
        THEN LET e2 == playFrom(e1, currentTimeMillisOf(e1))
             IN  IF e2.threw THEN e2 ELSE SendEvent(e2, "play")
        ELSE e1

play(e) ==
  LET e1 == Resume(e)
  IN  IF e1.track # 0 /\ e1.data.present /\ e1.data.state.state = "paused"
        THEN LET e2 == playFrom(e1, e1.data.state.positionMillis)
             IN  IF e2.threw THEN e2 ELSE SendEvent(e2, "play")
        ELSE e1

\* fault variant: the elapsed time is stored without scaling by the rate
pause_NoRate(e) ==
  LET e1 == Resume(e)
  IN  IF IsPlaying(e1)
        THEN LET st == e1.data.state
                 e2 == stopWithoutEnding(e1, st.source)
                 e3 == [e2 EXCEPT !.data.state =
                          Paused(Sub(Int2Num(now),
                                     st.effectiveStartTimeMillis))]
             IN  SendEvent(e3, "pause")
        ELSE e1

pause(e) ==
  LET e1 == Resume(e)
  IN  IF IsPlaying(e1)
        THEN LET st == e1.data.state
                 e2 == stopWithoutEnding(e1, st.source)
                 e3 == [e2 EXCEPT !.data.state =
                          Paused(ToPosition(now, st.effectiveStartTimeMillis,
                                            e2._playbackRate))]
             IN  SendEvent(e3, "pause")
        ELSE e1

currentTimeMillis == currentTimeMillisOf(Engine)

paused == ~IsPlaying(Engine)

\* fault variant: a seek while Playing starts the new source without
\* stopping the old one
setCurrentTime_NoStop(e, positionSeconds) ==
  IF e.track # 0 /\ e.data.present
    THEN LET positionMillis == Mul(positionSeconds, Int2Num(1000))
         IN  IF e.data.state.state = "paused"
               THEN SendEvent(
                      SendEvent([e EXCEPT !.data.state.positionMillis =
                                            positionMillis], "timeupdate"),
                      "seeked")
               ELSE LET e2 == playFrom(e, positionMillis)
                    IN  IF e2.threw THEN e2 ELSE SendEvent(e2, "seeked")
    ELSE e

\* fault variant: the seconds are stored without conversion to milliseconds
setCurrentTime_Seconds(e, positionSeconds) ==
  IF e.track # 0 /\ e.data.present
    THEN LET positionMillis == positionSeconds
         IN  IF e.data.state.state = "paused"
               THEN SendEvent(
                      SendEvent([e EXCEPT !.data.state.positionMillis =
                                            positionMillis], "timeupdate"),
                      "seeked")
               ELSE LET e1 == stopWithoutEnding(e, e.data.state.source)
                        e2 == playFrom(e1, positionMillis)
                    IN  IF e2.threw THEN e2 ELSE SendEvent(e2, "seeked")
    ELSE e

setCurrentTime(e, positionSeconds) ==
  IF e.track # 0 /\ e.data.present
    THEN LET positionMillis == Mul(positionSeconds, Int2Num(1000))
         IN  IF e.data.state.state = "paused"
               THEN SendEvent(
                      SendEvent([e EXCEPT !.data.state.positionMillis =
                                            positionMillis], "timeupdate"),
                      "seeked")
               ELSE LET e1 == stopWithoutEnding(e, e.data.state.source)
                        e2 == playFrom(e1, positionMillis)
                    IN  IF e2.threw THEN e2 ELSE SendEvent(e2, "seeked")
    ELSE e

\* fault variant: the configuration is assigned without restarting the
\* source that is playing
changeConfiguration_NoRestart(e, playbackRate, adjust) ==
  [e EXCEPT !._playbackRate = playbackRate,
            !._adjustPitchWithPlaybackRate = adjust]

\* pause if playing, assign the configuration, resume if it was playing
changeConfiguration(e, playbackRate, adjust) ==
  LET resume == IsPlaying(e)
      e1 == IF resume THEN pause(e) ELSE e
      e2 == [e1 EXCEPT !._playbackRate = playbackRate,
                       !._adjustPitchWithPlaybackRate = adjust]
  IN  IF resume THEN play(e2) ELSE e2

setAdjustPitchWithPlaybackRate(e, adjust) ==
  changeConfiguration(e, e._playbackRate, adjust)

setPlaybackRate(e, playbackRate) ==
  LET e1 == changeConfiguration(e, playbackRate,
                                e._adjustPitchWithPlaybackRate)
  IN  IF e1.threw THEN e1 ELSE SendEvent(e1, "ratechange")

\* fault variant: the decoded buffer is published without checking that
\* its Track is still the current one
loadFile_NoCheck(e, t) ==
  IF e.track # 0
    THEN SendEvent(SendEvent(SendEvent(SendEvent(
           [e EXCEPT !.data = TrackData(t, Paused(Zero))],
           "loadeddata"), "canplay"), "canplaythrough"), "timeupdate")
    ELSE e

\* fault variant: `canplay` is sent before `loadeddata`
loadFile_CanPlayFirst(e, t) ==
  IF t = e.track
    THEN SendEvent(SendEvent(SendEvent(SendEvent(
           [e EXCEPT !.data = TrackData(t, Paused(Zero))],
           "canplay"), "loadeddata"), "canplaythrough"), "timeupdate")
    ELSE e

\* the part of loadFile that runs once the buffer of Track t is decoded
loadFile(e, t) ==
  IF t = e.track
    THEN SendEvent(SendEvent(SendEvent(SendEvent(
           [e EXCEPT !.data = TrackData(t, Paused(Zero))],
           "loadeddata"), "canplay"), "canplaythrough"), "timeupdate")
    ELSE e

\* A Track object that is neither this.track nor awaited by a load in
\* flight is unreachable: nothing is recorded about it any more.
Unreachable(e, t) == t # e.track /\ e.loads[t] \notin {"file", "src"}

Release(e) ==
  [e EXCEPT !.loads = [t \in TrackIds |->
                         IF Unreachable(e, t) THEN "none" ELSE e.loads[t]]]

\* the Track replaces this.track; its load is in flight
NewTrack(e, kind) ==
  IF e.nextTrack > MaxTracks THEN [e EXCEPT !.blocked = TRUE]
  ELSE Release([e EXCEPT !.track = e.nextTrack,
                         !.nextTrack = @ + 1,
                         !.data = NoData,
                         !.loads[e.nextTrack] = kind])

StopIfPlaying(e) ==
  IF IsPlaying(e) THEN stopWithoutEnding(e, e.data.state.source) ELSE e

\* fault variant: the Track is replaced without stopping its source
loadAudioFile_NoStop(e) == NewTrack(e, "file")

loadAudioFile(e) == NewTrack(StopIfPlaying(e), "file")

setSrc(e, src) ==
  LET e1 == StopIfPlaying(e)
  IN  IF src = ""
        THEN Release([e1 EXCEPT !.track = 0, !.data = NoData])
        ELSE NewTrack(e1, "src")

\* the load of Track t resolves with a decoded buffer
loadResolved(e, t) ==
  Release([loadFile(e, t) EXCEPT !.loads[t] = "done"])

\* fault variant: the failure is swallowed without an `error` event
loadRejected_Silent(e, t) ==
  Release([e EXCEPT !.loads[t] = "done",
                    !.threw = (e.loads[t] = "file")])

\* the load of Track t fails: the catch handlers of loadAudioFile (which
\* rethrows, rejecting the returned promise) and of the src setter
loadRejected(e, t) ==
  Release([SendEvent(e, "error") EXCEPT
             !.loads[t] = "done",
             !.threw = (e.loads[t] = "file")])

\* ---------------------------------------------------------------- volume
\* the volume settings and the gain node, as one value the setters transform
Mixer == [_volume |-> _volume, gain |-> gain, fired |-> <<>>, threw |-> FALSE]

\* gainNode.gain.value = muted ? 0 : volume; the AudioParam rejects a
\* non-finite value with a TypeError and keeps its value
updateGain(m) ==
  LET value == IF m._volume.muted THEN Zero ELSE m._volume.volume
  IN  IF IsFinite(value) THEN [m EXCEPT !.gain = value]
                         ELSE [m EXCEPT !.threw = TRUE]

setVolume(m, volume) ==
  LET v == MathMax(Zero, MathMin(One, volume))
  IN  IF StrictNotEqual(v, m._volume.volume)
        THEN LET m1 == updateGain([m EXCEPT !._volume.volume = v])
             IN  IF m1.threw THEN m1 ELSE SendEvent(m1, "volumechange")
        ELSE m

setMuted(m, muted) ==
  IF muted # m._volume.muted
    THEN LET m1 == updateGain([m EXCEPT !._volume.muted = muted])
         IN  IF m1.threw THEN m1 ELSE SendEvent(m1, "volumechange")
    ELSE m

CommitMixer(result, op) ==
  /\ _volume' = result._volume
  /\ gain' = result.gain
  /\ fired' = result.fired
  /\ threw' = result.threw
  /\ lastOp' = op
  /\ UNCHANGED playbackVars
  /\ UNCHANGED cueVars

\* -------------------------------------------------------------- composer
\* the files with up to MaxLayers layers of up to MaxEvents events
EventLists ==
  UNION {[1..n -> {CueFileEvent(t) : t \in Timestamps}] : n \in 0..MaxEvents}

LayerLists ==
  UNION {[1..n -> {CueFileLayer(events) : events \in EventLists}] :
           n \in 1..MaxLayers}

CueFiles == {CueFile(layers) : layers \in LayerLists}

\* the events of a file, each named by its layer and its index; a
\* Selection is a set of them (selection.events, whose order is not used)
EventsOf(file) ==
  {<<l, i>> \in (1..MaxLayers) \X (1..MaxEvents) :
     l <= Len(file.layers) /\ i <= Len(file.layers[l].events)}

\* Math.min.apply(null, numbers) of a non-empty set of numbers
MinOf(numbers) == CHOOSE m \in numbers : \A n \in numbers : Geq(n, m)

\* f maps each pair <<event, layer>> of the file to the converted event
modifyEvents(file, sel, f) ==
  LET doConvertLayer(l) ==
        [kind |-> file.layers[l].kind,
         settings |-> file.layers[l].settings,
         events |-> [i \in 1..Len(file.layers[l].events) |->
                      IF <<l, i>> \in sel
                        THEN f[<<file.layers[l].events[i], file.layers[l]>>]
                        ELSE file.layers[l].events[i]]]
      newLayers ==
        [l \in 1..Len(file.layers) |->
           IF \E i \in 1..MaxEvents : <<l, i>> \in sel
             THEN doConvertLayer(l)
             ELSE file.layers[l]]
  IN  [lengthMillis |-> file.lengthMillis, layers |-> newLayers]

updateStartTimeForSelectedEvents(file, sel, startTime) ==
  IF sel = {} THEN file
  ELSE
    LET start == MinOf({file.layers[e[1]].events[e[2]].timestampMillis :
                          e \in sel})
        newStart == MathMax(Zero, startTime)
        shift == Sub(newStart, start)
        shiftEvent ==
          [a \in {<<file.layers[e[1]].events[e[2]], file.layers[e[1]]>> :
                    e \in EventsOf(file)} |->
             [timestampMillis |-> Add(a[1].timestampMillis, shift),
              states |-> a[1].states]]
    IN  IF ~StrictNotEqual(start, newStart) THEN file
        ELSE IF Lt(shift, Fin(1, 10)) /\ Gt(shift, Fin(1, 10)) THEN file
        ELSE modifyEvents(file, sel, shiftEvent)

\* ------------------------------------------------------------- backend
\* the position in its buffer a source has played to at time t
PlayedTo(source, t) ==
  Add(source.offset, Mul(Int2Num(t - source.startedAt), source.rate))

\* the clock advances; a playing source that has reached the end of its
\* buffer finishes, and its `ended` event is then due
AdvancedSources(srcs, t) ==
  [s \in SourceIds |->
     IF srcs[s].status = "live"
        /\ Geq(PlayedTo(srcs[s], t), Int2Num(DurationMillis))
       THEN [srcs[s] EXCEPT !.status = "finished",
                            !.rate = Zero, !.pitchShift = FALSE,
                            !.offset = Zero, !.startedAt = 0]
       ELSE srcs[s]]

\* ------------------------------------------------------------- actions
Play == Commit(play(Engine), "play")

Pause == Commit(pause(Engine), "pause")

SetCurrentTimeTo(positionSeconds) ==
  Commit(setCurrentTime(Engine, positionSeconds), "seek")

SetCurrentTime == \E positionSeconds \in SeekSeconds :
                    SetCurrentTimeTo(positionSeconds)

SetCurrentTimeNegative == \E positionSeconds \in NegativeSeekSeconds :
                            SetCurrentTimeTo(positionSeconds)

SetPlaybackRateTo(playbackRate) ==
  Commit(setPlaybackRate(Engine, playbackRate), "rate")

SetPlaybackRate == \E playbackRate \in Rates :
                     SetPlaybackRateTo(playbackRate)

SetAdjustPitchWithPlaybackRate ==
  \E adjust \in BOOLEAN :
    Commit(setAdjustPitchWithPlaybackRate(Engine, adjust), "pitch")

LoadAudioFile == Commit(loadAudioFile(Engine), "loadAudioFile")

SetSrc ==
  \E src \in {"", "url"} : Commit(setSrc(Engine, src), "src")

LoadResolvedOf(t) ==
  /\ loads[t] \in {"file", "src"}
  /\ Commit(loadResolved(Engine, t), "loadResolved")

LoadResolved == \E t \in TrackIds : LoadResolvedOf(t)

LoadRejectedOf(t) ==
  /\ loads[t] \in {"file", "src"}
  /\ Commit(loadRejected(Engine, t), "loadRejected")

LoadRejected == \E t \in TrackIds : LoadRejectedOf(t)

\* a pending animation frame callback runs
TimeUpdated ==
  \E id \in frames :
    Commit(timeUpdated([Engine EXCEPT !.frames = @ \ {id}]), "frame")

\* the `ended` event of a source that stopped or finished is delivered
\* (at any later time, and not assumed to be delivered only once)
TrackEndedOf(s) ==
  /\ sources[s].status \in {"stopped", "finished"}
  /\ Commit(createTrackEndedListener(Engine, s), "ended")

TrackEnded == \E s \in SourceIds : TrackEndedOf(s)

SetVolumeTo(volume) == CommitMixer(setVolume(Mixer, volume), "volume")

SetVolume == \E volume \in Volumes : SetVolumeTo(volume)

SetMutedTo(muted) == CommitMixer(setMuted(Mixer, muted), "muted")

SetMuted == \E muted \in BOOLEAN : SetMutedTo(muted)

\* the composer moves the selected events to the new start time
UpdateStartTimeForSelectedEvents ==
  /\ ~returned.called
  /\ returned' =
       [called |-> TRUE,
        file |-> updateStartTimeForSelectedEvents(cueFile, selection,
                                                  newStartTime)]
  /\ fired' = <<>>
  /\ threw' = FALSE
  /\ lastOp' = "updateStartTime"
  /\ UNCHANGED <<cueFile, selection, newStartTime>>
  /\ UNCHANGED playbackVars
  /\ UNCHANGED <<_volume, gain>>

AdvanceClock ==
  \E d \in ClockSteps :
    /\ ctxState = "running"
    /\ now + d <= MaxNow
    /\ now' = now + d
    /\ sources' = AdvancedSources(sources, now + d)
    /\ fired' = <<>>
    /\ threw' = FALSE
    /\ lastOp' = "clock"
    /\ UNCHANGED <<ctxState, track, nextTrack, loads, data,
                   suppressEndedEvent, nextSource, _playbackRate,
                   _adjustPitchWithPlaybackRate, _animationFrameRequest,
                   frames, _volume, gain>>
    /\ UNCHANGED cueVars

Operation ==
  \/ Play
  \/ Pause
  \/ SetCurrentTime
  \/ SetPlaybackRate
  \/ LoadAudioFile
  \/ SetSrc
  \/ LoadResolved
  \/ LoadRejected
  \/ TimeUpdated
  \/ TrackEnded

Next ==
  \/ /\ \/ Operation
        \/ SetAdjustPitchWithPlaybackRate
        \/ SetCurrentTimeNegative
     /\ UNCHANGED now
  \/ AdvanceClock

Spec == Init /\ [][Next]_vars

\* The engine with adjustPitchWithPlaybackRate left as constructed: every
\* operation but the assignment of that flag.
FixedPitchNext ==
  \/ Operation /\ UNCHANGED now
  \/ AdvanceClock

FixedPitchSpec == Init /\ [][FixedPitchNext]_vars

\* Playback of tracks loaded from files at the initial rate and pitch
\* setting; the event loop delivers the `ended` event of a source that has
\* stopped or finished.
PlaybackNext ==
  \/ /\ \/ Play
        \/ Pause
        \/ SetCurrentTime
        \/ LoadAudioFile
        \/ LoadResolved
        \/ TimeUpdated
        \/ TrackEnded
     /\ UNCHANGED now
  \/ AdvanceClock

FairSpec ==
  /\ Init
  /\ [][PlaybackNext]_vars
  /\ \A s \in SourceIds : WF_vars(TrackEndedOf(s) /\ UNCHANGED now)

\* Playback of one track after another under changes of the rate and of
\* the pitch flag.
ConfigurationNext ==
  \/ /\ \/ Play
        \/ Pause
        \/ SetPlaybackRate
        \/ SetAdjustPitchWithPlaybackRate
        \/ LoadAudioFile
        \/ LoadResolved
        \/ TrackEnded
     /\ UNCHANGED now
  \/ AdvanceClock

ConfigurationSpec == Init /\ [][ConfigurationNext]_vars

\* The volume and muted settings of an engine, whatever it is playing.
VolumeNext == SetVolume \/ SetMuted

VolumeSpec == Init /\ [][VolumeNext]_vars

\* One call of updateStartTimeForSelectedEvents, on any file, selection
\* and start time within the bounds.
CueInit ==
  /\ PlayerInit
  /\ cueFile \in CueFiles
  /\ selection \in SUBSET EventsOf(cueFile)
  /\ newStartTime \in NewStartTimes
  /\ returned = [called |-> FALSE, file |-> cueFile]

CueNext == UpdateStartTimeForSelectedEvents

CueSpec == CueInit /\ [][CueNext]_vars

TypeOK ==
  /\ ctxState \in {"suspended", "running"}
  /\ now \in 0..MaxNow
  /\ track \in 0..MaxTracks
  /\ data.present => track # 0 /\ data.buffer \in TrackIds
  /\ nextSource \in 1..(MaxSources + 1)
  /\ frames \subseteq FrameIds
  /\ _playbackRate \in Rates
  /\ _volume.muted \in BOOLEAN

\* ---------------------------------------------------------- properties
Current(s) == IsPlaying(Engine) /\ data.state.source = s

Live == {s \in SourceIds : sources[s].status = "live"}

\* C1: the `ended` listener of source s fires `ended` and resets the state
\* to Paused(0) only when the Playing state it was registered for is still
\* the current PlayState and is not suppressed; otherwise it fires nothing
\* and leaves the track, the PlayState and the position as they were.
C1_EndedOnlyForCurrentState ==
  [][\A s \in SourceIds :
       lastOp' = "ended" /\ TrackEndedOf(s) =>
         IF Current(s) /\ ~suppressEndedEvent[s]
           THEN fired' = <<"ended">> /\ data'.state = Paused(Zero)
                /\ track' = track
           ELSE fired' = <<>> /\ track' = track /\ data' = data]_vars

\* a stale callback was delivered while a newer Playing state is current
C1_Witness ==
  /\ lastOp = "ended"
  /\ fired = <<>>
  /\ IsPlaying(Engine)
  /\ sources[data.state.source].status = "live"
  /\ \E s \in SourceIds : sources[s].status \in {"stopped", "finished"}

\* C2: a source on which the controller has called stop() had its state's
\* suppressEndedEvent set when stop() was issued, the flag stays set, and
\* its listener has fired no `ended`, whenever its callback is delivered.
C2_StoppedSourcesNeverEnd ==
  \A s \in SourceIds :
    sources[s].stop # "no" =>
      /\ sources[s].stop = "suppressed"
      /\ suppressEndedEvent[s]
      /\ sources[s].ended = 0

\* the only source there has been had finished by itself, was then stopped
\* by the controller, and its callback has now been delivered
C2_Witness ==
  /\ lastOp = "ended"
  /\ \E s \in SourceIds :
       /\ sources[s].status = "finished"
       /\ sources[s].stop = "suppressed"
       /\ \A o \in SourceIds \ {s} : sources[o].status = "none"

\* C3: the listener of a source fires `ended` at most once; delivered while
\* the finished source's Playing state is current it fires `ended` and
\* leaves Paused(0); and a source that finished while current eventually
\* has fired its `ended`, unless another operation replaced its state.
C3_EndedExactlyOnce ==
  /\ [](\A s \in SourceIds : sources[s].ended <= 1)
  /\ [][\A s \in SourceIds :
          lastOp' = "ended" /\ Current(s) /\ sources[s].stop = "no"
          /\ TrackEndedOf(s) =>
            /\ fired' = <<"ended">>
            /\ data'.state = Paused(Zero)
            /\ sources'[s].ended = 1]_vars
  /\ \A s \in SourceIds :
       (Current(s) /\ sources[s].status = "finished")
         ~> (sources[s].ended = 1 \/ ~Current(s))

\* the only source there has been fired `ended`, and a further delivery of
\* its callback fired nothing
C3_Witness ==
  /\ lastOp = "ended"
  /\ fired = <<>>
  /\ data.present /\ data.state = Paused(Zero)
  /\ \E s \in SourceIds :
       /\ sources[s].ended = 1
       /\ \A o \in SourceIds \ {s} : sources[o].status = "none"

\* C4: the data of the current Track is always the buffer decoded by that
\* Track's own load, and there is no data when there is no Track.
C4_DataFromCurrentLoad ==
  data.present => track # 0 /\ data.buffer = track

\* the earlier load resolved after the later one had published its data
C4_Witness ==
  /\ lastOp = "loadResolved"
  /\ fired = <<>>
  /\ data.present
  /\ track # 0 /\ loads[track] = "done"

\* C5: the completion of a superseded load, with a buffer or with an
\* error, delivers no event and changes no engine state.
C5_SupersededLoadSilent ==
  [][\A t \in TrackIds :
       /\ lastOp' \in {"loadResolved", "loadRejected"}
       /\ t # track
       /\ (LoadResolvedOf(t) \/ LoadRejectedOf(t))
       =>
         /\ fired' = <<>>
         /\ track' = track /\ data' = data /\ sources' = sources]_vars

\* C6: at most one source is playing, and it is the source of the current
\* Playing state.
C6_OneLiveSource ==
  /\ Cardinality(Live) <= 1
  /\ \A s \in Live : Current(s)

\* a seek while Playing replaced a stopped source by a playing one
C6_Witness ==
  /\ lastOp = "seek"
  /\ Live # {}
  /\ \E s \in SourceIds : sources[s].status = "stopped"

\* C7: assigning playbackRate while Playing leaves the engine Playing on a
\* fresh source, with currentTimeMillis as it was before the assignment.
C7_RateChangeContinuity ==
  [][\A r \in Rates :
       lastOp' = "rate" /\ IsPlaying(Engine) /\ SetPlaybackRateTo(r) =>
         /\ data'.present /\ data'.state.state = "playing"
         /\ data'.state.source = nextSource
         /\ sources'[nextSource].status = "live"
         /\ _playbackRate' = r
         /\ currentTimeMillis' = currentTimeMillis]_vars

\* C8: while a source started at position p with rate r, d milliseconds
\* ago, is the current one and has not finished, currentTimeMillis is
\* p + d * r.
C8_PositionWhilePlaying ==
  \A s \in SourceIds :
    Current(s) /\ sources[s].status = "live" =>
      currentTimeMillis = PlayedTo(sources[s], now)

\* C9: pause() right after play(), the clock not having advanced, leaves
\* Paused at the position play() started from.
C9_PlayPauseNoDrift ==
  [][lastOp = "play" /\ fired = <<"play">> /\ lastOp' = "pause" /\ Pause =>
       data'.state = Paused(sources[data.state.source].offset)]_vars

\* C10: a seek while Paused stores exactly the given position, stays
\* Paused, creates and stops no source, and fires `timeupdate`, `seeked`.
C10_SeekWhilePaused ==
  [][\A ms \in {1000, 6000} :
       /\ lastOp' = "seek"
       /\ data.present /\ data.state.state = "paused"
       /\ SetCurrentTimeTo(Fin(ms, 1000))
       => /\ data'.state = Paused(Int2Num(ms))
          /\ currentTimeMillis' = Int2Num(ms)
          /\ sources' = sources /\ nextSource' = nextSource
          /\ suppressEndedEvent' = suppressEndedEvent
          /\ fired' = <<"timeupdate", "seeked">>]_vars

C10_Witness ==
  /\ lastOp = "seek"
  /\ fired = <<"timeupdate", "seeked">>
  /\ data.present /\ data.state = Paused(Int2Num(6000))
  /\ nextSource > 1

\* C11: a seek to p while Playing stops the current source with its flag
\* set, starts a new source at p, leaves the engine Playing on it with the
\* scheduler armed and currentTimeMillis = p, and fires `seeked` only; the
\* callback of the stopped source fires no `ended`.
C11_SeekWhilePlaying ==
  /\ [][\A ms \in {1000, 6000} :
          lastOp' = "seek" /\ IsPlaying(Engine)
          /\ SetCurrentTimeTo(Fin(ms, 1000)) =>
            /\ suppressEndedEvent'[data.state.source]
            /\ sources'[data.state.source].stop = "suppressed"
            /\ sources'[data.state.source].status # "live"
            /\ data'.present /\ data'.state.state = "playing"
            /\ data'.state.source = nextSource
            /\ sources'[nextSource].status = "live"
            /\ sources'[nextSource].offset = Int2Num(ms)
            /\ currentTimeMillis' = Int2Num(ms)
            /\ _animationFrameRequest' \in frames'
            /\ fired' = <<"seeked">>]_vars
  /\ [][\A s \in SourceIds :
          lastOp' = "ended" /\ sources[s].stop = "suppressed"
          /\ TrackEndedOf(s) => fired' = <<>>]_vars

\* C12: play() without track data or while Playing, pause() while not
\* Playing and a seek without track data change no track, PlayState or
\* position (the PlayState, the clock and the rate, of which the position
\* is computed, are as before), create and stop no source and fire no
\* event; without track data currentTimeMillis is 0 and paused is true.
C12_NoOps ==
  /\ [][(\/ /\ lastOp' = "play"
            /\ ~(track # 0 /\ data.present /\ data.state.state = "paused")
            /\ Play
         \/ /\ lastOp' = "pause"
            /\ ~IsPlaying(Engine)
            /\ Pause
         \/ /\ lastOp' = "seek"
            /\ ~(track # 0 /\ data.present)
            /\ SetCurrentTime)
        => /\ track' = track /\ data' = data
           /\ now' = now /\ _playbackRate' = _playbackRate
           /\ sources' = sources /\ nextSource' = nextSource
           /\ suppressEndedEvent' = suppressEndedEvent
           /\ frames' = frames
           /\ fired' = <<>> /\ ~threw']_vars
  /\ [](~(track # 0 /\ data.present) =>
          currentTimeMillis = Zero /\ paused)

\* play() was called while a source was already playing
C12_Witness ==
  /\ lastOp = "play"
  /\ fired = <<>>
  /\ IsPlaying(Engine)
  /\ sources[data.state.source].status = "live"

\* C13: pause() while Playing installs Paused((now - anchor) * rate) with
\* the anchor of the state it leaves, stops that state's source with the
\* flag set, starts no source, and fires `pause` once and nothing else.
C13_PauseWhilePlaying ==
  [][lastOp' = "pause" /\ IsPlaying(Engine) /\ Pause =>
       /\ data'.state =
            Paused(Mul(Sub(Int2Num(now), data.state.effectiveStartTimeMillis),
                       _playbackRate))
       /\ suppressEndedEvent'[data.state.source]
       /\ sources'[data.state.source].stop = "suppressed"
       /\ Live' = {}
       /\ nextSource' = nextSource
       /\ fired' = <<"pause">>]_vars

\* a source playing at rate 2 was paused 2500 ms after it started at 0
C13_Witness ==
  /\ lastOp = "pause"
  /\ fired = <<"pause">>
  /\ _playbackRate = Fin(2, 1)
  /\ data.present /\ data.state = Paused(Int2Num(5000))

\* C14: when the load of the current Track resolves, its data is published
\* with Paused(0), the events loadeddata, canplay, canplaythrough,
\* timeupdate are fired in that order, once each, and no source is started.
C14_LoadSuccess ==
  [][\A t \in TrackIds :
       lastOp' = "loadResolved" /\ t = track /\ LoadResolvedOf(t) =>
         /\ track' = track
         /\ data' = TrackData(t, Paused(Zero))
         /\ fired' = <<"loadeddata", "canplay", "canplaythrough",
                       "timeupdate">>
         /\ sources' = sources /\ nextSource' = nextSource
         /\ frames' = frames
         /\ paused']_vars

\* the second Track's load resolved while it was the current one
C14_Witness ==
  /\ lastOp = "loadResolved"
  /\ Len(fired) = 4
  /\ track = 2
  /\ data = TrackData(2, Paused(Zero))

\* the load of the current Track has failed and no other was requested
FailedLoad == track # 0 /\ loads[track] = "done" /\ ~data.present

\* C15: when the load of the current Track fails, `error` is fired once and
\* nothing else, the Track stays current and without data, and nothing of
\* the playback state changes; afterwards play, pause and seek change
\* nothing and fire nothing, and a further load request installs its Track
\* with its load in flight (whose success then publishes data, C14).
C15_LoadFailure ==
  /\ [][\A t \in TrackIds :
          lastOp' = "loadRejected" /\ t = track /\ LoadRejectedOf(t) =>
            /\ fired' = <<"error">>
            /\ track' = track /\ ~data'.present
            /\ FailedLoad'
            /\ sources' = sources /\ nextSource' = nextSource
            /\ frames' = frames]_vars
  /\ [][FailedLoad /\ lastOp' \in {"play", "pause", "seek"}
        /\ (Play \/ Pause \/ SetCurrentTime) =>
          /\ fired' = <<>> /\ ~threw'
          /\ track' = track /\ data' = data
          /\ sources' = sources /\ nextSource' = nextSource]_vars
  /\ [][FailedLoad /\ lastOp' = "loadAudioFile" /\ LoadAudioFile =>
          /\ track' = nextTrack
          /\ loads'[nextTrack] = "file"
          /\ ~data'.present]_vars

\* the load of the second Track failed after that of the first
C15_Witness ==
  /\ lastOp = "loadRejected"
  /\ fired = <<"error">>
  /\ track = 2
  /\ FailedLoad

\* C16: the failure of a load is never propagated to the caller of the
\* load operation (the promise returned by loadAudioFile is not rejected).
C16_LoadFailureNotPropagated ==
  lastOp = "loadRejected" => ~threw

\* C17: assigning volume stores the value clamped to [0,1], and assigning
\* muted stores the flag; each fires `volumechange` once when the stored
\* value changes and nothing when it does not.
C17_VolumeChangeEvents ==
  /\ [][\A v \in Volumes :
          lastOp' = "volume" /\ SetVolumeTo(v) =>
            /\ Geq(_volume'.volume, Zero) /\ Geq(One, _volume'.volume)
            /\ Geq(v, Zero) /\ Geq(One, v) => _volume'.volume = v
            /\ Geq(v, One) => _volume'.volume = One
            /\ Geq(Zero, v) => _volume'.volume = Zero
            /\ _volume'.muted = _volume.muted
            /\ fired' = IF _volume'.volume # _volume.volume
                          THEN <<"volumechange">> ELSE <<>>]_vars
  /\ [][\A m \in BOOLEAN :
          lastOp' = "muted" /\ SetMutedTo(m) =>
            /\ _volume'.muted = m
            /\ fired' = IF m # _volume.muted
                          THEN <<"volumechange">> ELSE <<>>]_vars

\* C18: the stored volume is within [0,1], the gain is 0 when muted and
\* the stored volume otherwise, and assigning muted leaves the stored
\* volume as it was.
C18_GainFollowsVolume ==
  /\ [](/\ Geq(_volume.volume, Zero) /\ Geq(One, _volume.volume)
        /\ gain = IF _volume.muted THEN Zero ELSE _volume.volume)
  /\ [][lastOp' = "muted" /\ SetMuted =>
          _volume'.volume = _volume.volume]_vars

\* C19: the stored playbackRate is always a positive finite rate.
C19_PlaybackRateClamped ==
  IsFinite(_playbackRate) /\ Sign(_playbackRate) > 0

\* C20: no animation frame callback is pending while the engine is not
\* Playing, and none has run (and sent `timeupdate`) while it was not.
C20_TickCancelledOutsidePlaying ==
  /\ ~IsPlaying(Engine) => frames = {}
  /\ lastOp = "frame" => IsPlaying(Engine)

\* C21: whenever the track is loaded and Paused, its position lies between
\* 0 and the duration of the track.
C21_PausedPositionInRange ==
  data.present /\ data.state.state = "paused" =>
    /\ Geq(data.state.positionMillis, Zero)
    /\ Geq(Int2Num(DurationMillis), data.state.positionMillis)

\* C22: every assignment to playbackRate stores the rate and fires
\* `ratechange` once, as the last event: after `pause` and `play` when the
\* engine was Playing, and alone otherwise, in which case the track, the
\* PlayState and the sources are left as they were.
C22_RateChangeEvent ==
  [][\A r \in Rates :
       lastOp' = "rate" /\ SetPlaybackRateTo(r) =>
         /\ _playbackRate' = r
         /\ IF IsPlaying(Engine)
              THEN fired' = <<"pause", "play", "ratechange">>
              ELSE /\ fired' = <<"ratechange">>
                   /\ track' = track /\ data' = data
                   /\ sources' = sources
                   /\ nextSource' = nextSource]_vars

\* C23: the source that is playing was given the engine's current
\* playbackRate and is routed through the pitch shifter exactly when that
\* rate is not 1 and adjustPitchWithPlaybackRate is set.
C23_SourceFollowsConfiguration ==
  \A s \in SourceIds :
    Current(s) /\ sources[s].status = "live" =>
      /\ sources[s].rate = _playbackRate
      /\ sources[s].pitchShift =
           (_playbackRate # One /\ _adjustPitchWithPlaybackRate)

\* the pitch flag was cleared while a source was playing at rate 2, and
\* the source that replaced it bypasses the pitch shifter
C23_Witness ==
  /\ lastOp = "pitch"
  /\ _playbackRate = Fin(2, 1)
  /\ ~_adjustPitchWithPlaybackRate
  /\ \E s \in SourceIds :
       /\ Current(s) /\ sources[s].status = "live"
       /\ ~sources[s].pitchShift
       /\ \E o \in SourceIds : sources[o].status = "stopped"

\* C24: whenever a Playing state is the current PlayState (between two
\* steps), its suppressEndedEvent flag is false.
C24_CurrentStateNotSuppressed ==
  IsPlaying(Engine) => ~suppressEndedEvent[data.state.source]

\* C25: at most one animation frame callback is pending, it is the one
\* requested last, and one is pending whenever the engine is Playing; a
\* callback that runs while Playing sends `timeupdate` and requests the
\* next.
C25_OneTickPending ==
  /\ [](/\ Cardinality(frames) <= 1
        /\ frames \subseteq {_animationFrameRequest}
        /\ IsPlaying(Engine) => frames # {})
  /\ [][lastOp' = "frame" /\ IsPlaying(Engine) /\ TimeUpdated =>
          /\ fired' = <<"timeupdate">>
          /\ frames' = {_animationFrameRequest'}]_vars

\* a seek while Playing re-armed the scheduler while a frame was pending
C25_Witness ==
  /\ lastOp = "seek"
  /\ IsPlaying(Engine)
  /\ frames = {_animationFrameRequest}
  /\ \E s \in SourceIds : sources[s].status = "stopped"

\* C26: loadAudioFile, or an assignment to src, made while Playing stops
\* the source with the flag set, replaces or removes the Track, and fires
\* nothing; while the Track has no data paused is true, currentTimeMillis
\* is 0, play, pause and seek change nothing, and the callbacks of earlier
\* sources fire nothing.
C26_ReplaceWhilePlaying ==
  /\ [][lastOp' \in {"loadAudioFile", "src"} /\ IsPlaying(Engine)
        /\ (LoadAudioFile \/ SetSrc) =>
          /\ suppressEndedEvent'[data.state.source]
          /\ sources'[data.state.source].stop = "suppressed"
          /\ Live' = {}
          /\ track' # track
          /\ ~data'.present
          /\ fired' = <<>>]_vars
  /\ [](track # 0 /\ ~data.present =>
          paused /\ currentTimeMillis = Zero)
  /\ [][track # 0 /\ ~data.present
        /\ lastOp' \in {"play", "pause", "seek", "ended"}
        /\ (Play \/ Pause \/ SetCurrentTime \/ TrackEnded) =>
          /\ fired' = <<>>
          /\ track' = track /\ data' = data
          /\ sources' = sources]_vars

\* the source was cleared while playing, and the callback of the stopped
\* source has been delivered
C26_Witness ==
  /\ lastOp = "ended"
  /\ fired = <<>>
  /\ track = 0
  /\ \E s \in SourceIds :
       sources[s].status = "stopped" /\ sources[s].stop = "suppressed"

\* C27: the call returns the file as it was when nothing is selected, when
\* the earliest selected event already starts at max(0, newStartTime), or
\* when the shift between the two is less than 0.1 ms in magnitude;
\* otherwise every selected event is moved by that shift, so that the
\* earliest starts at max(0, newStartTime), and the unselected events, the
\* layers' kind and settings and the length of the file are as they were.
C27_UpdateStartTime ==
  returned.called =>
    IF selection = {} THEN returned.file = cueFile
    ELSE
      LET start == MinOf({cueFile.layers[e[1]].events[e[2]].timestampMillis :
                            e \in selection})
          target == IF Geq(newStartTime, Zero) THEN newStartTime ELSE Zero
          shift == Sub(target, start)
      IN  IF start = target
             \/ (Lt(shift, Fin(1, 10)) /\ Gt(shift, Fin(-1, 10)))
            THEN returned.file = cueFile
            ELSE
              /\ returned.file.lengthMillis = cueFile.lengthMillis
              /\ Len(returned.file.layers) = Len(cueFile.layers)
              /\ \A l \in 1..Len(cueFile.layers) :
                   /\ returned.file.layers[l].kind = cueFile.layers[l].kind
                   /\ returned.file.layers[l].settings =
                        cueFile.layers[l].settings
                   /\ Len(returned.file.layers[l].events) =
                        Len(cueFile.layers[l].events)
              /\ \A e \in EventsOf(cueFile) :
                   returned.file.layers[e[1]].events[e[2]] =
                     IF e \in selection
                       THEN [cueFile.layers[e[1]].events[e[2]] EXCEPT
                               !.timestampMillis = Add(@, shift)]
                       ELSE cueFile.layers[e[1]].events[e[2]]
              /\ MinOf({returned.file.layers[e[1]].events[e[2]].timestampMillis :
                          e \in selection}) = target

====
